---- MODULE Spec2Model ----
(***************************************************************************)
(* Model of pages/show.py of PortfolioChecker: the category editor with    *)
(* its validated save, the flattening of the hierarchy, and the portfolio  *)
(* computation (valuation, aggregation, deviation analysis, advisor).      *)
(*                                                                         *)
(* Representation.                                                         *)
(*  - A Python dict is a sequence of [k, v] records in insertion order.    *)
(*  - A name is a sequence of tokens; the token "-" is the character the   *)
(*    code joins and splits keys on, every other token is a run of other   *)
(*    characters.  f"{major}-{minor}" is major \o <<"-">> \o minor.        *)
(*  - A ratio is an integer number of 1/RatioScale (0.40 is 400); money is *)
(*    an integer number of 1/RatioScale yuan.  The code uses binary        *)
(*    floats; the model is exact fixed point.  The advisor's ratios and    *)
(*    share counts are exact fractions [n, d] in lowest terms.             *)
(*  - An action is one run of the script after one button press or one     *)
(*    widget change; every other widget returns the value the working copy *)
(*    (or the stored data) holds.                                          *)
(*  - The Chinese names of DEFAULT_CATEGORIES are transliterated:          *)
(*    bond, rate_gov, credit, stock, cn_hs, cn_star, cn_div, us,           *)
(*    commodity, gold, flex (the liquidity major), cash, default_minor.    *)
(***************************************************************************)
EXTENDS Integers, Sequences, FiniteSets, TLC

VARIABLES
    db_categories,    \* what get_user_config_from_db returns as categories
    edit_categories,  \* st.session_state.edit_categories
    temp_categories,  \* st.session_state.temp_categories: None or Some(dict)
    save_log,         \* the save_categories_to_db call of the latest run
    edits,            \* number of working-copy edits so far
    assets_info,      \* the stored holdings
    report,           \* what the latest run's portfolio computation produced
    sizing,           \* the share sizing of one holding (lines 738-766 alone)
    edit_form         \* session_state.edit_asset and the latest run's form submit

vars == <<db_categories, edit_categories, temp_categories, save_log,
          edits, assets_info, report, sizing, edit_form>>

-----------------------------------------------------------------------------
(* Bounds and input sets *)

RatioScale == 1000
MaxEdits == 3

Dash == "-"

\* Names typed into the editor's text inputs for majors and for subcategories.
MajorNameInputs == { <<"flex", Dash, "cash">> }
MinorNameInputs == { <<"cash", Dash, "gold">> }

\* Values typed into the ratio inputs.
MajorRatioInputs == {300}
NewMajorRatioInputs == {10}
MinorRatioInputs == {0, 404}
NewMinorRatioInputs == {10}

-----------------------------------------------------------------------------
(* Python dict as a sequence of [k, v] records *)

None == {}
Some(x) == {x}
TheValue(s) == CHOOSE x \in s : TRUE

Keys(d) == [i \in 1..Len(d) |-> d[i].k]
Has(d, key) == \E i \in 1..Len(d) : d[i].k = key
IndexOf(d, key) == CHOOSE i \in 1..Len(d) : d[i].k = key
Get(d, key) == d[IndexOf(d, key)].v

\* d[key] = val
Put(d, key, val) ==
    IF Has(d, key)
    THEN [d EXCEPT ![IndexOf(d, key)] = [k |-> key, v |-> val]]
    ELSE Append(d, [k |-> key, v |-> val])

\* del d[key]
Del(d, key) ==
    LET i == IndexOf(d, key)
    IN SubSeq(d, 1, i - 1) \o SubSeq(d, i + 1, Len(d))

RECURSIVE SumValues(_)
\* sum(d.values())
SumValues(d) ==
    IF d = <<>> THEN 0 ELSE d[1].v + SumValues(Tail(d))

RECURSIVE SumRatios(_)
\* sum([data["ratio"] for data in categories.values()])
SumRatios(categories) ==
    IF categories = <<>> THEN 0
    ELSE categories[1].v.ratio + SumRatios(Tail(categories))

Max(a, b) == IF a >= b THEN a ELSE b

-----------------------------------------------------------------------------
(* Configuration *)

Major(name, ratio, subs) ==
    [k |-> name, v |-> [ratio |-> ratio, subcategories |-> subs]]
Minor(name, ratio) == [k |-> name, v |-> ratio]

DEFAULT_CATEGORIES ==
    << Major(<<"bond">>, 400,
             << Minor(<<"rate_gov">>, 200), Minor(<<"credit">>, 200) >>),
       Major(<<"stock">>, 400,
             << Minor(<<"cn_hs">>, 100), Minor(<<"cn_star">>, 100),
                Minor(<<"cn_div">>, 100), Minor(<<"us">>, 100) >>),
       Major(<<"commodity">>, 100, << Minor(<<"gold">>, 100) >>),
       Major(<<"flex">>, 100, << Minor(<<"cash">>, 100) >>) >>

\* A flattening that keys the subcategory table by the subcategory name alone.
FullNameMinorOnly(major_name, minor_name) == minor_name

\* full_name = f"{major_name}-{minor_name}"
FullName(major_name, minor_name) == major_name \o <<Dash>> \o minor_name

RECURSIVE FlattenSubs(_, _, _)
FlattenSubs(major_name, subs, acc) ==
    IF subs = <<>> THEN acc
    ELSE FlattenSubs(major_name, Tail(subs),
                     Put(acc, FullName(major_name, subs[1].k), subs[1].v))

RECURSIVE FlattenMajors(_, _)
FlattenMajors(categories, acc) ==
    IF categories = <<>> THEN acc
    ELSE FlattenMajors(Tail(categories),
             FlattenSubs(categories[1].k, categories[1].v.subcategories, acc))

\* flatten_categories: (target_ratio, target_ratio_sub)
flatten_categories(categories) ==
    [target_ratio |->
        [i \in 1..Len(categories) |->
            [k |-> categories[i].k, v |-> categories[i].v.ratio]],
     target_ratio_sub |-> FlattenMajors(categories, <<>>)]

-----------------------------------------------------------------------------
(* save_categories_to_db *)

\* not (0.99 <= total_major <= 1.01)
MajorTotalBad(total_major) ==
    ~(99 * RatioScale <= 100 * total_major /\ 100 * total_major <= 101 * RatioScale)

\* not (0.99 * ratio <= total_minor <= 1.01 * ratio)
MinorTotalBad(ratio, total_minor) ==
    ~(99 * ratio <= 100 * total_minor /\ 100 * total_minor <= 101 * ratio)

RECURSIVE MinorCheck(_)
\* The loop over the majors: the st.error of the first major whose
\* subcategory total is out of range, or no error.
MinorCheck(categories) ==
    IF categories = <<>> THEN <<>>
    ELSE LET total_minor == SumValues(categories[1].v.subcategories)
         IN IF MinorTotalBad(categories[1].v.ratio, total_minor)
            THEN << [kind |-> "minor", major |-> categories[1].k,
                     ratio |-> categories[1].v.ratio, total |-> total_minor] >>
            ELSE MinorCheck(Tail(categories))

\* A validation that runs the per-major loop before the major-total check.
ValidationErrorsMinorFirst(categories) ==
    LET total_major == SumRatios(categories)
    IN IF MinorCheck(categories) # <<>> THEN MinorCheck(categories)
       ELSE IF MajorTotalBad(total_major)
       THEN << [kind |-> "major", major |-> <<>>, ratio |-> RatioScale,
                total |-> total_major] >>
       ELSE <<>>

\* The validation part: the errors it reports (none when it passes).
ValidationErrors(categories) ==
    LET total_major == SumRatios(categories)
    IN IF MajorTotalBad(total_major)
       THEN << [kind |-> "major", major |-> <<>>, ratio |-> RatioScale,
                total |-> total_major] >>
       ELSE MinorCheck(categories)

DbError == [kind |-> "db", major |-> <<>>, ratio |-> 0, total |-> 0]

\* A save that validates the major total only.
save_categories_to_db_MajorOnly(categories, db_ok) ==
    LET total_major == SumRatios(categories)
    IN IF MajorTotalBad(total_major)
       THEN [ret |-> FALSE, errors |-> ValidationErrors(categories), stored |-> None]
       ELSE IF db_ok THEN [ret |-> TRUE, errors |-> <<>>, stored |-> Some(categories)]
       ELSE [ret |-> FALSE, errors |-> <<DbError>>, stored |-> None]

\* The whole function: db_ok is whether update_one returns (TRUE) or raises.
save_categories_to_db(categories, db_ok) ==
    LET errs == ValidationErrors(categories)
    IN IF errs # <<>> THEN [ret |-> FALSE, errors |-> errs, stored |-> None]
       ELSE IF db_ok THEN [ret |-> TRUE, errors |-> <<>>, stored |-> Some(categories)]
       ELSE [ret |-> FALSE, errors |-> <<DbError>>, stored |-> None]

NoSave ==
    [called |-> FALSE, button |-> "none", arg |-> <<>>, ret |-> FALSE,
     errors |-> <<>>]
\* The call made by the handler of button ("save": "保存配置", "reset":
\* "恢复默认分类").
SaveLog(button, categories, res) ==
    [called |-> TRUE, button |-> button, arg |-> categories, ret |-> res.ret,
     errors |-> res.errors]

-----------------------------------------------------------------------------
(* Holdings and the portfolio computation ("开始计算资产组合") *)

AssetNames == {"a1", "a2"}
AssetTypes == {"fund", "etf", "cash"}
\* Values typed into "持有份额" (min_value = 0.0).
AmountInputs == {0, 150}
\* What a price lookup can do: raise, return an empty frame, or return a
\* frame whose last close is the given price (in 1/RatioScale yuan).
Quote(kind, close) == [kind |-> kind, close |-> close]
QuoteOutcomes == {Quote("raise", 0), Quote("empty", 0), Quote("price", 2000)}
\* The quote of a holding that is never looked up.
NotAsked == Quote("none", 0)

\* Options picked in "所属分类" (among those the current hierarchy offers).
CategoryInputs ==
    { <<"bond", Dash, "rate_gov">>, <<"bond", Dash, "credit">>,
      <<"flex", Dash, "cash">>, <<"flex", Dash, "cash", Dash, "gold">> }

Asset(type, amount, category) ==
    [type |-> type, amount |-> amount, category |-> category]

GetOr(d, key, default) == IF Has(d, key) THEN Get(d, key) ELSE default

RECURSIVE Split(_, _)
\* str.split("-"): cur is the part being read.
Split(name, cur) ==
    IF name = <<>> THEN <<cur>>
    ELSE IF name[1] = Dash THEN <<cur>> \o Split(Tail(name), <<>>)
    ELSE Split(Tail(name), Append(cur, name[1]))

\* The price fetch loop: A (name -> frame) and the warnings it shows.  Only
\* "fund" and "etf" holdings are looked up.
FetchPrices(assets, quote) ==
    LET looked == {i \in 1..Len(assets) : assets[i].v.type \in {"fund", "etf"}}
        got == {i \in looked : quote[assets[i].k].kind # "raise"}
    IN [lookups |-> {assets[i].k : i \in looked},
        warnings |-> {assets[i].k : i \in looked \ got},
        A |-> [n \in {assets[i].k : i \in got} |->
                 IF quote[n].kind = "empty" THEN [empty |-> TRUE, close |-> 0]
                 ELSE [empty |-> FALSE, close |-> quote[n].close]]]

\* current_values[name] for one holding
CurrentValue(info, name, A) ==
    IF info.type = "cash" THEN info.amount * RatioScale
    ELSE IF name \in DOMAIN A /\ ~A[name].empty THEN info.amount * A[name].close
    ELSE 0

CurrentValues(assets, A) ==
    [i \in 1..Len(assets) |->
        [k |-> assets[i].k, v |-> CurrentValue(assets[i].v, assets[i].k, A)]]

RECURSIVE GroupSum(_, _, _)
\* df.groupby(col)["现有价值"].sum(): keys[i] is row i's value of col.
GroupSum(keys, values, acc) ==
    IF keys = <<>> THEN acc
    ELSE GroupSum(Tail(keys), Tail(values),
                  Put(acc, keys[1], GetOr(acc, keys[1], 0) + values[1].v))

\* A deviation ratio without the zero-target guard.
DiffRatioUnguarded(diff, target_value) ==
    [num |-> diff * 100, den |-> target_value]

\* diff / target_value * 100 if target_value != 0 else 0, as a fraction
\* num/den; den = 0 stands for a division by zero.
DiffRatio(diff, target_value) ==
    IF target_value # 0 THEN [num |-> diff * 100, den |-> target_value]
    ELSE [num |-> 0, den |-> 1]

\* total_value * tar (the quotient and the remainder of total_value by
\* RatioScale are multiplied apart, which keeps the products small)
TargetValue(total_value, tar) ==
    (total_value \div RatioScale) * tar
    + ((total_value % RatioScale) * tar) \div RatioScale

\* round(x, 2) of an amount of money (half to even).
Round2(x) ==
    LET q == x \div 10
        r == x % 10
    IN IF r < 5 THEN q * 10
       ELSE IF r > 5 THEN (q + 1) * 10
       ELSE IF q % 2 = 0 THEN q * 10 ELSE (q + 1) * 10

\* The loops filling sub_diff / sub_diff_ratio (cls_diff / cls_diff_ratio):
\* one entry per configured key, in the order of the target table.
Diffs(targets, summary, total_value) ==
    [i \in 1..Len(targets) |->
        LET target_value == TargetValue(total_value, targets[i].v)
            actual_value == GetOr(summary, targets[i].k, 0)
        IN [k |-> targets[i].k,
            v |-> [diff |-> actual_value - target_value,
                   diff_ratio |-> DiffRatio(actual_value - target_value, target_value)]]]

\* A table built from the categories that have holdings.
TableOverHoldings(targets, summary, diffs, total_value) ==
    [i \in 1..Len(summary) |->
        LET target_value == TargetValue(total_value, GetOr(targets, summary[i].k, 0))
        IN [k |-> summary[i].k,
            v |-> [current_amount |-> Round2(summary[i].v),
                   target_amount |-> Round2(target_value),
                   diff_amount |-> Round2(summary[i].v - target_value),
                   diff_ratio |-> DiffRatio(summary[i].v - target_value, target_value)]]]

\* sub_table / cls_table: one row per key of the target table, indexed by it.
\* The ratio columns are kept as fractions (the page shows them rounded).
Table(targets, summary, diffs, total_value) ==
    [i \in 1..Len(targets) |->
        [k |-> targets[i].k,
         v |-> [current_amount |-> Round2(GetOr(summary, targets[i].k, 0)),
                target_amount |-> Round2(TargetValue(total_value, targets[i].v)),
                diff_amount |-> Round2(Get(diffs, targets[i].k).diff),
                diff_ratio |-> Get(diffs, targets[i].k).diff_ratio]]]

-----------------------------------------------------------------------------
(* Exact fractions for the advisor's float arithmetic *)

RECURSIVE GCD(_, _)
GCD(a, b) == IF b = 0 THEN a ELSE GCD(b, a % b)

Abs(x) == IF x < 0 THEN -x ELSE x

\* The fraction n/d in lowest terms with d > 0.
Q(n, d) ==
    LET g == GCD(Abs(n), Abs(d))
        s == IF d < 0 THEN -1 ELSE 1
    IN [n |-> s * (n \div g), d |-> s * (d \div g)]

QInt(n) == [n |-> n, d |-> 1]
\* float("nan"): what numpy's 0.0 / 0.0 returns.
NaN == [n |-> 0, d |-> 0]
IsNaN(a) == a.d = 0

QNeg(a) == [n |-> -a.n, d |-> a.d]
QAbs(a) == [n |-> Abs(a.n), d |-> a.d]

QSub(a, b) ==
    IF IsNaN(a) \/ IsNaN(b) THEN NaN
    ELSE LET g == GCD(a.d, b.d)
         IN Q(a.n * (b.d \div g) - b.n * (a.d \div g), (a.d \div g) * b.d)

QMul(a, b) ==
    IF IsNaN(a) \/ IsNaN(b) THEN NaN
    ELSE LET x == Q(a.n, b.d)
             y == Q(b.n, a.d)
         IN Q(x.n * y.n, x.d * y.d)

\* a / b for numpy floats; the computation only divides by zero as 0.0 / 0.0.
QDiv(a, b) ==
    IF IsNaN(a) \/ IsNaN(b) \/ b.n = 0 THEN NaN
    ELSE QMul(a, Q(b.d, b.n))

\* Comparisons; every comparison with nan is False.
QPos(a) == ~IsNaN(a) /\ a.n > 0
QNegative(a) == ~IsNaN(a) /\ a.n < 0
QGreater(a, b) == ~IsNaN(a) /\ ~IsNaN(b) /\ a.n * b.d > b.n * a.d

\* (a // 100) as an integer.
FloorDiv100(a) == a.n \div (100 * a.d)

\* round(a, 2): to the nearest 1/100, a tie to the even one.
QRound2(a) ==
    LET f == (a.n * 100) \div a.d
        r == (a.n * 100) % a.d
        up == 2 * r > a.d \/ (2 * r = a.d /\ f % 2 # 0)
    IN Q(IF up THEN f + 1 ELSE f, 100)

-----------------------------------------------------------------------------
(* The share sizing of one holding (lines 738-766) *)

\* A sizing whose purchase of lot-traded shares rounds up to the next lot.
AdjustSharesBuyUp(asset_type, base_shares, current_shares) ==
    IF asset_type = "etf" /\ QPos(base_shares)
    THEN QInt(-((-base_shares.n) \div (100 * base_shares.d)) * 100)
    ELSE QInt(0)

\* adjust_shares for a holding of asset_type holding current_shares, given
\* base_shares (the shares the value adjustment amounts to).
AdjustShares(asset_type, base_shares, current_shares) ==
    IF asset_type = "etf" THEN
        IF QPos(base_shares) THEN QInt(FloorDiv100(base_shares) * 100)
        ELSE IF QNegative(base_shares) THEN
            LET adjust_shares == QInt((FloorDiv100(base_shares) + 1) * 100)
            IN IF QGreater(QAbs(adjust_shares), current_shares)
               THEN QNeg(QInt(FloorDiv100(current_shares) * 100))
               ELSE adjust_shares
        ELSE QInt(0)
    ELSE IF asset_type = "fund" THEN
        IF QPos(base_shares) THEN QRound2(base_shares)
        ELSE IF QNegative(base_shares) THEN
            LET adjust_shares == QRound2(base_shares)
            IN IF QGreater(QAbs(adjust_shares), current_shares)
               THEN QNeg(QRound2(current_shares))
               ELSE adjust_shares
        ELSE QInt(0)
    ELSE QInt(0)

\* The st.info / st.warning of lines 769-778: what is suggested for a
\* holding whose sizing gave adjust_shares (nothing when it is 0).
Shown(adjust_shares, unit_value) ==
    IF QPos(adjust_shares) THEN
        [direction |-> "buy", quantity |-> adjust_shares,
         implied_value |-> QMul(adjust_shares, unit_value)]
    ELSE IF QNegative(adjust_shares) THEN
        [direction |-> "sell", quantity |-> QAbs(adjust_shares),
         implied_value |-> QMul(QAbs(adjust_shares), unit_value)]
    ELSE [direction |-> "none", quantity |-> QInt(0), implied_value |-> QInt(0)]

NoSizing ==
    [asset_type |-> "none", base_shares |-> QInt(0),
     current_shares |-> QInt(0), unit_value |-> QInt(0),
     adjust_shares |-> QInt(0), shown |-> Shown(QInt(0), QInt(0))]

\* Shares in 1/1000: base_shares values the sizing is applied to, and held
\* quantities ("持有份额" takes any float >= 0).
BaseSharesInputs ==
    { Q(n, 1000) : n \in { 237000, 200000, 100000, 99000, 12345, 4,
                           -4, -12345, -10006, -50000, -100000, -150500,
                           -200000, -237000 } }
CurrentSharesInputs == { Q(n, 1000) : n \in {0, 10000, 10006, 150000, 300000} }
\* unit_value in 1/RatioScale yuan per share
UnitValueInputs == { QInt(2000) }

\* Lines 745-778 for one holding: the rounding by type, the cap, and the
\* suggestion shown.
SizeHolding ==
    /\ \E asset_type \in AssetTypes, base_shares \in BaseSharesInputs,
          current_shares \in CurrentSharesInputs, unit_value \in UnitValueInputs :
        LET adjust_shares == AdjustShares(asset_type, base_shares, current_shares)
        IN sizing' = [asset_type |-> asset_type, base_shares |-> base_shares,
                      current_shares |-> current_shares,
                      unit_value |-> unit_value,
                      adjust_shares |-> adjust_shares,
                      shown |-> Shown(adjust_shares, unit_value)]
    /\ UNCHANGED <<db_categories, edit_categories, temp_categories, save_log,
                   edits, assets_info, report, edit_form>>

-----------------------------------------------------------------------------
(* The advisor ("调仓建议", lines 648-780) *)

\* "机动-现金"
LIQUIDITY == <<"flex", Dash, "cash">>

\* deviation_pct
DeviationPct(diff_ratio, target) ==
    IF QPos(target) THEN QDiv(QAbs(diff_ratio), target) ELSE QInt(1)

\* An adjustment whose deviation is the current ratio less the target.
AdjustmentOfReversed(category, tar, category_value, total_value) ==
    LET target == Q(tar, RatioScale)
        current == IF Has(category_value, category)
                   THEN Q(Get(category_value, category), total_value)
                   ELSE QInt(0)
        diff_ratio == QSub(current, target)
    IN [k |-> category,
        v |-> [target |-> target, current |-> current,
               diff_ratio |-> diff_ratio,
               diff_value |-> QMul(QInt(total_value), diff_ratio),
               deviation_pct |-> DeviationPct(diff_ratio, target)]]

\* adjustment[category]
AdjustmentOf(category, tar, category_value, total_value) ==
    LET target == Q(tar, RatioScale)
        current == IF Has(category_value, category)
                   THEN Q(Get(category_value, category), total_value)
                   ELSE QInt(0)
        diff_ratio == QSub(target, current)
    IN [k |-> category,
        v |-> [target |-> target, current |-> current,
               diff_ratio |-> diff_ratio,
               diff_value |-> QMul(QInt(total_value), diff_ratio),
               deviation_pct |-> DeviationPct(diff_ratio, target)]]

RECURSIVE AdjustmentAll(_, _, _)
\* An adjustment table that has an entry for every configured key.
AdjustmentAll(targets, category_value, total_value) ==
    IF targets = <<>> THEN <<>>
    ELSE <<AdjustmentOf(targets[1].k, targets[1].v, category_value, total_value)>>
         \o AdjustmentAll(Tail(targets), category_value, total_value)

RECURSIVE Adjustment(_, _, _)
\* The loop filling adjustment: one entry per configured key but "机动-现金".
Adjustment(targets, category_value, total_value) ==
    IF targets = <<>> THEN <<>>
    ELSE (IF targets[1].k = LIQUIDITY THEN <<>>
          ELSE <<AdjustmentOf(targets[1].k, targets[1].v, category_value,
                              total_value)>>)
         \o Adjustment(Tail(targets), category_value, total_value)

\* significant_adj: the entries with deviation_pct >= 0.2 (no entry has a
\* "类型", so the second condition of the filter is always true).
Significant(adjustment) ==
    SelectSeq(adjustment, LAMBDA e : ~QGreater(Q(1, 5), e.v.deviation_pct))

\* An advice for one holding that spreads the correction evenly over the
\* holdings of the category.
HoldingAdviceEven(name, info, value, category_total, diff_value) ==
    LET current_shares == QInt(info.amount)
        unit_value == IF info.amount > 0 THEN Q(value, info.amount)
                      ELSE QInt(RatioScale)
        adjust_shares ==
            IF QPos(unit_value)
            THEN AdjustShares(info.type, QDiv(diff_value, unit_value), current_shares)
            ELSE QInt(0)
    IN [name |-> name, asset_type |-> info.type,
        current_shares |-> current_shares, unit_value |-> unit_value,
        asset_value_ratio |-> QInt(1), asset_adjust_value |-> diff_value,
        adjust_shares |-> adjust_shares,
        shown |-> Shown(adjust_shares, unit_value)]

\* The body of the loop over category_assets (lines 729-778) for one holding
\* worth value, in a category worth category_total.
HoldingAdvice(name, info, value, category_total, diff_value) ==
    LET current_shares == QInt(info.amount)
        unit_value == IF info.amount > 0 THEN Q(value, info.amount)
                      ELSE QInt(RatioScale)
        asset_value_ratio == QDiv(QInt(value), QInt(category_total))
        asset_adjust_value == QMul(diff_value, asset_value_ratio)
        adjust_shares ==
            IF QPos(unit_value)
            THEN AdjustShares(info.type, QDiv(asset_adjust_value, unit_value),
                              current_shares)
            ELSE QInt(0)
    IN [name |-> name, asset_type |-> info.type,
        current_shares |-> current_shares, unit_value |-> unit_value,
        asset_value_ratio |-> asset_value_ratio,
        asset_adjust_value |-> asset_adjust_value,
        adjust_shares |-> adjust_shares,
        shown |-> Shown(adjust_shares, unit_value)]

\* The expander of one significant category: the advice for each of its
\* holdings, or the note "该小类暂无标的" when it has none.
CategoryAdvice(e, assets, current_values) ==
    LET category_assets ==
            SelectSeq([i \in 1..Len(assets) |-> i],
                      LAMBDA i : assets[i].v.category = e.k)
        category_total ==
            SumValues([j \in 1..Len(category_assets) |->
                          current_values[category_assets[j]]])
    IN [k |-> e.k,
        v |-> [adj |-> e.v,
               no_assets_note |-> category_assets = <<>>,
               holdings |->
                   [j \in 1..Len(category_assets) |->
                       LET i == category_assets[j]
                       IN HoldingAdvice(assets[i].k, assets[i].v,
                                        current_values[i].v, category_total,
                                        e.v.diff_value)]]]

NoAdvisor ==
    [status |-> "none", adjustment |-> <<>>, significant_adj |-> <<>>,
     advice |-> <<>>]

\* Lines 652-780.  "raised": major, minor = category.split("-") raises for a
\* key that does not split into exactly two parts; the categories before it
\* have been shown.
Advisor(assets, current_values, target_ratio_sub, total_value) ==
    IF assets = <<>> \/ target_ratio_sub = <<>>
    THEN [NoAdvisor EXCEPT !.status = "nothing_to_advise"]
    ELSE IF total_value = 0
    THEN [NoAdvisor EXCEPT !.status = "total_zero"]
    ELSE
      LET category_value ==
              GroupSum([i \in 1..Len(assets) |-> assets[i].v.category],
                       current_values, <<>>)
          adjustment == Adjustment(target_ratio_sub, category_value, total_value)
          significant_adj == Significant(adjustment)
          bad == {n \in 1..Len(significant_adj) :
                     Len(Split(significant_adj[n].k, <<>>)) # 2}
          shown == IF bad = {} THEN Len(significant_adj)
                   ELSE (CHOOSE n \in bad : \A o \in bad : n <= o) - 1
      IN [status |-> IF significant_adj = <<>> THEN "balanced"
                     ELSE IF bad # {} THEN "raised" ELSE "advice",
          adjustment |-> adjustment,
          significant_adj |-> significant_adj,
          advice |-> [n \in 1..shown |->
                         CategoryAdvice(significant_adj[n], assets, current_values)]]

NoReport ==
    [status |-> "none", quote |-> <<>>, lookups |-> {}, warnings |-> {},
     current_values |-> <<>>, total_value |-> 0,
     sub_summary |-> <<>>, cls_summary |-> <<>>,
     sub_diff |-> <<>>, cls_diff |-> <<>>, sub_table |-> <<>>, cls_table |-> <<>>,
     advisor |-> NoAdvisor]

\* The computation block: the two comparison tables, then the advisor (the
\* charts after it read the same sums and store nothing).  It stops with an
\* exception ("aborted") when there is no holding (the sum of the empty
\* object column is the int 0 and 0 / 0 raises, if the split has not already)
\* and when some holding's category does not split into exactly two parts
\* (the two-column assignment of line 554 raises).
ComputeReport(assets, categories, quote) ==
    LET flat == flatten_categories(categories)
        fetched == FetchPrices(assets, quote)
        current_values == CurrentValues(assets, fetched.A)
        valued == [NoReport EXCEPT !.quote = quote,
                                   !.lookups = fetched.lookups,
                                   !.warnings = fetched.warnings,
                                   !.current_values = current_values]
        parts == [i \in 1..Len(assets) |-> Split(assets[i].v.category, <<>>)]
    IN IF assets = <<>> \/ \E i \in 1..Len(assets) : Len(parts[i]) # 2
       THEN [valued EXCEPT !.status = "aborted"]
       ELSE
         LET total_value == SumValues(current_values)
             sub_summary ==
                 GroupSum([i \in 1..Len(assets) |-> assets[i].v.category],
                          current_values, <<>>)
             cls_summary ==
                 GroupSum([i \in 1..Len(assets) |-> parts[i][1]],
                          current_values, <<>>)
             sub_diff == Diffs(flat.target_ratio_sub, sub_summary, total_value)
             cls_diff == Diffs(flat.target_ratio, cls_summary, total_value)
         IN [valued EXCEPT
               !.status = "ok",
               !.total_value = total_value,
               !.sub_summary = sub_summary,
               !.cls_summary = cls_summary,
               !.sub_diff = sub_diff,
               !.cls_diff = cls_diff,
               !.sub_table = Table(flat.target_ratio_sub, sub_summary, sub_diff,
                                   total_value),
               !.cls_table = Table(flat.target_ratio, cls_summary, cls_diff,
                                   total_value),
               !.advisor = Advisor(assets, current_values,
                                   flat.target_ratio_sub, total_value)]

-----------------------------------------------------------------------------
(* Category editor *)

\* The holding edit form: session_state.edit_asset (show_edit is set and
\* cleared together with it) and what the latest run's submit did.
NoSubmit ==
    [submitted |-> FALSE, original_name |-> "", new_name |-> "",
     data |-> Asset("none", 0, <<>>), delete |-> "none", write |-> "none"]

NoForm == [edit_asset |-> None, submit |-> NoSubmit]

Init ==
    /\ db_categories = DEFAULT_CATEGORIES
    /\ edit_categories = FALSE
    /\ temp_categories = None
    /\ save_log = NoSave
    /\ edits = 0
    /\ assets_info = <<>>
    /\ report = NoReport
    /\ sizing = NoSizing
    /\ edit_form = NoForm

InEditMode == edit_categories /\ temp_categories # None
temp_cats == TheValue(temp_categories)

\* An edit whose working copy is the stored dict itself (no copy taken).
EditedInPlace(new_cats) ==
    /\ temp_categories' = Some(new_cats)
    /\ db_categories' = new_cats
    /\ edits' = edits + 1
    /\ save_log' = NoSave
    /\ report' = NoReport
    /\ UNCHANGED <<sizing, edit_form>>
    /\ UNCHANGED <<edit_categories, assets_info>>

\* A run that edits the working copy and nothing else.
Edited(new_cats) ==
    /\ temp_categories' = Some(new_cats)
    /\ edits' = edits + 1
    /\ save_log' = NoSave
    /\ report' = NoReport
    /\ UNCHANGED <<sizing, edit_form>>
    /\ UNCHANGED <<db_categories, edit_categories, assets_info>>

\* "编辑分类": temp_categories = {**categories}
EnterEdit ==
    /\ ~edit_categories
    /\ edit_categories' = TRUE
    /\ temp_categories' = Some(db_categories)
    /\ save_log' = NoSave
    /\ report' = NoReport
    /\ UNCHANGED <<sizing, edit_form>>
    /\ UNCHANGED <<db_categories, edits, assets_info>>

\* A save that leaves edit mode and drops the working copy whatever
\* save_categories_to_db returns.
SaveEditAlwaysLeaving ==
    /\ edit_categories
    /\ \E db_ok \in BOOLEAN :
        LET res == save_categories_to_db(temp_cats, db_ok)
        IN /\ save_log' = SaveLog("save", temp_cats, res)
           /\ db_categories' = IF res.stored # None THEN TheValue(res.stored)
                               ELSE db_categories
           /\ edit_categories' = FALSE
           /\ temp_categories' = None
    /\ report' = NoReport
    /\ UNCHANGED <<sizing, edit_form>>
    /\ UNCHANGED <<edits, assets_info>>

\* "保存配置"
SaveEdit ==
    /\ edit_categories
    /\ \E db_ok \in BOOLEAN :
        LET res == save_categories_to_db(temp_cats, db_ok)
        IN /\ save_log' = SaveLog("save", temp_cats, res)
           /\ db_categories' = IF res.stored # None THEN TheValue(res.stored)
                               ELSE db_categories
           /\ edit_categories' = IF res.ret THEN FALSE ELSE edit_categories
           /\ temp_categories' = IF res.ret THEN None ELSE temp_categories
    /\ report' = NoReport
    /\ UNCHANGED <<sizing, edit_form>>
    /\ UNCHANGED <<edits, assets_info>>

\* "恢复默认分类"
ResetDefault ==
    /\ \E db_ok \in BOOLEAN :
        LET res == save_categories_to_db(DEFAULT_CATEGORIES, db_ok)
        IN /\ save_log' = SaveLog("reset", DEFAULT_CATEGORIES, res)
           /\ db_categories' = IF res.stored # None THEN TheValue(res.stored)
                               ELSE db_categories
    /\ report' = NoReport
    /\ UNCHANGED <<sizing, edit_form>>
    /\ UNCHANGED <<edit_categories, temp_categories, edits, assets_info>>

\* "添加大类"
AddMajor ==
    /\ InEditMode /\ edits < MaxEdits
    /\ \E new_major_name \in MajorNameInputs, new_major_ratio \in NewMajorRatioInputs :
        /\ new_major_name # <<>>
        /\ 10 <= new_major_ratio /\ new_major_ratio <= 990
        /\ Edited(IF ~Has(temp_cats, new_major_name)
             THEN Put(temp_cats, new_major_name,
                      [ratio |-> new_major_ratio,
                       subcategories |->
                           << Minor(<<"default_minor">>, new_major_ratio) >>])
             ELSE temp_cats)

\* "删除大类"
DeleteMajor ==
    /\ InEditMode /\ edits < MaxEdits
    /\ \E i \in 1..Len(temp_cats) :
        Edited(Del(temp_cats, temp_cats[i].k))

\* The major's name input changed: temp_cats[new] = temp_cats.pop(old), then
\* the ratio input's (unchanged) value is written back.
RenameMajor ==
    /\ InEditMode /\ edits < MaxEdits
    /\ \E i \in 1..Len(temp_cats), new_major_name \in MajorNameInputs :
        LET major_name == temp_cats[i].k
            new_major_ratio == temp_cats[i].v.ratio
            popped == Put(Del(temp_cats, major_name), new_major_name, temp_cats[i].v)
        IN /\ new_major_name # major_name
           /\ Edited(Put(popped, new_major_name,
                    [Get(popped, new_major_name) EXCEPT !.ratio = new_major_ratio]))

\* The major's ratio input changed.
SetMajorRatio ==
    /\ InEditMode /\ edits < MaxEdits
    /\ \E i \in 1..Len(temp_cats), new_major_ratio \in MajorRatioInputs :
        /\ 10 <= new_major_ratio /\ new_major_ratio <= 990
        /\ new_major_ratio # temp_cats[i].v.ratio
        /\ Edited([temp_cats EXCEPT ![i].v.ratio = new_major_ratio])

WithSubs(i, subcats) == [temp_cats EXCEPT ![i].v.subcategories = subcats]

\* "添加小类"
AddMinor ==
    /\ InEditMode /\ edits < MaxEdits
    /\ \E i \in 1..Len(temp_cats), new_minor_name \in MinorNameInputs,
          new_minor_ratio \in NewMinorRatioInputs :
        LET subcats == temp_cats[i].v.subcategories
            remaining_ratio == Max(10, temp_cats[i].v.ratio - SumValues(subcats))
        IN /\ new_minor_name # <<>>
           /\ 10 <= new_minor_ratio /\ new_minor_ratio <= remaining_ratio
           /\ Edited(IF ~Has(subcats, new_minor_name)
                THEN WithSubs(i, Put(subcats, new_minor_name, new_minor_ratio))
                ELSE temp_cats)

\* "删除" of a subcategory (offered while the major has more than one)
DeleteMinor ==
    /\ InEditMode /\ edits < MaxEdits
    /\ \E i \in 1..Len(temp_cats) :
        LET subcats == temp_cats[i].v.subcategories
        IN /\ Len(subcats) > 1
           /\ \E j \in 1..Len(subcats) :
                Edited(WithSubs(i, Del(subcats, subcats[j].k)))

\* What lines 949-951 leave in subcats when the name input of minor_name
\* holds new_minor_name and its ratio input holds new_minor_ratio.
UpdateMinor(subcats, minor_name, new_minor_name, new_minor_ratio) ==
    LET renamed == IF new_minor_name # minor_name
                   THEN Put(Del(subcats, minor_name), new_minor_name,
                            Get(subcats, minor_name))
                   ELSE subcats
    IN Put(renamed, minor_name, new_minor_ratio)

\* The subcategory's name input changed.
RenameMinor ==
    /\ InEditMode /\ edits < MaxEdits
    /\ \E i \in 1..Len(temp_cats), new_minor_name \in MinorNameInputs :
        LET subcats == temp_cats[i].v.subcategories
        IN \E j \in 1..Len(subcats) :
            /\ new_minor_name # subcats[j].k
            /\ Edited(WithSubs(i, UpdateMinor(subcats, subcats[j].k, new_minor_name,
                                         subcats[j].v)))

\* The subcategory's ratio input changed (no min_value, no max_value).
SetMinorRatio ==
    /\ InEditMode /\ edits < MaxEdits
    /\ \E i \in 1..Len(temp_cats), new_minor_ratio \in MinorRatioInputs :
        LET subcats == temp_cats[i].v.subcategories
        IN \E j \in 1..Len(subcats) :
            /\ new_minor_ratio # subcats[j].v
            /\ Edited(WithSubs(i, UpdateMinor(subcats, subcats[j].k, subcats[j].k,
                                         new_minor_ratio)))

Next ==
    \/ EnterEdit
    \/ SaveEdit
    \/ ResetDefault
    \/ AddMajor
    \/ DeleteMajor
    \/ RenameMajor
    \/ SetMajorRatio
    \/ AddMinor
    \/ DeleteMinor
    \/ RenameMinor
    \/ SetMinorRatio

Spec == Init /\ [][Next]_vars

-----------------------------------------------------------------------------
(* Holdings, committed hierarchies and the computation *)

\* Working copies an edit session can end with: the default edited by
\*  - delete 信用/信用, set 利率/国债 to 0.404;
\*  - set 利率/国债 to 0.404, set 信用/信用 to 0;
\*  - rename 商品 to "flex-cash", add "cash-gold" (0.01) to 机动, set it to 0.
H_orphan ==
    [DEFAULT_CATEGORIES EXCEPT
        ![1].v.subcategories = << Minor(<<"rate_gov">>, 404) >>]
H_zero ==
    [DEFAULT_CATEGORIES EXCEPT
        ![1].v.subcategories =
            << Minor(<<"rate_gov">>, 404), Minor(<<"credit">>, 0) >>]
H_dash ==
    << DEFAULT_CATEGORIES[1], DEFAULT_CATEGORIES[2],
       Major(<<"flex">>, 100,
             << Minor(<<"cash">>, 100), Minor(<<"cash", Dash, "gold">>, 0) >>),
       Major(<<"flex", Dash, "cash">>, 100, << Minor(<<"gold">>, 100) >>) >>

HierarchyInputs == {H_orphan, H_zero, H_dash}

\* A run outside the portfolio computation and the editor.
Rerun ==
    /\ save_log' = NoSave
    /\ report' = NoReport
    /\ edit_form' = [edit_form EXCEPT !.submit = NoSubmit]
    /\ UNCHANGED sizing
    /\ UNCHANGED <<db_categories, edit_categories, temp_categories, edits>>

\* "确认添加": add_asset_to_db({asset_name: {...}}), the write succeeding
AddAsset ==
    /\ \E asset_name \in AssetNames, asset_type \in AssetTypes,
          hold_amount \in AmountInputs, asset_category \in CategoryInputs :
        /\ Has(flatten_categories(db_categories).target_ratio_sub, asset_category)
        /\ assets_info' = Put(assets_info, asset_name,
                              Asset(asset_type, hold_amount, asset_category))
    /\ Rerun

\* "确认删除": delete_asset_from_db(asset_to_delete), the write succeeding
DeleteAsset ==
    /\ \E i \in 1..Len(assets_info) :
        assets_info' = Del(assets_info, assets_info[i].k)
    /\ Rerun

\* add_asset_to_db or delete_asset_from_db whose update_one raises: the
\* error is shown and nothing is stored.
AssetWriteFails ==
    /\ assets_info' = assets_info
    /\ Rerun

\* An edit session ending in "保存配置" with working copy h.
EditSession ==
    /\ ~edit_categories
    /\ \E h \in HierarchyInputs :
        LET res == save_categories_to_db(h, TRUE)
        IN /\ h # db_categories
           /\ save_log' = SaveLog("save", h, res)
           /\ db_categories' = IF res.stored # None THEN TheValue(res.stored)
                               ELSE db_categories
    /\ report' = NoReport
    /\ UNCHANGED <<sizing, edit_form>>
    /\ UNCHANGED <<edit_categories, temp_categories, edits, assets_info>>

\* A computation that removes the holdings it values at 0 from the store.
ComputeDroppingWorthless ==
    /\ \E quote \in [{assets_info[i].k : i \in 1..Len(assets_info)} ->
                        QuoteOutcomes \cup {NotAsked}] :
        /\ \A i \in 1..Len(assets_info) :
             assets_info[i].v.type = "cash" <=> quote[assets_info[i].k] = NotAsked
        /\ report' = ComputeReport(assets_info, db_categories, quote)
        /\ assets_info' =
               SelectSeq(assets_info,
                         LAMBDA a : CurrentValue(a.v, a.k,
                                                 FetchPrices(assets_info, quote).A) # 0)
    /\ save_log' = NoSave
    /\ UNCHANGED <<sizing, edit_form>>
    /\ UNCHANGED <<db_categories, edit_categories, temp_categories, edits>>

\* "开始计算资产组合"
Compute ==
    /\ \E quote \in [{assets_info[i].k : i \in 1..Len(assets_info)} ->
                        QuoteOutcomes \cup {NotAsked}] :
        /\ \A i \in 1..Len(assets_info) :
             assets_info[i].v.type = "cash" <=> quote[assets_info[i].k] = NotAsked
        /\ report' = ComputeReport(assets_info, db_categories, quote)
    /\ UNCHANGED <<sizing, edit_form>>
    /\ save_log' = NoSave
    /\ UNCHANGED <<db_categories, edit_categories, temp_categories, edits,
                   assets_info>>

NextPortfolio ==
    \/ AddAsset
    \/ DeleteAsset
    \/ AssetWriteFails
    \/ EditSession
    \/ ResetDefault
    \/ Compute

SpecPortfolio == Init /\ [][NextPortfolio]_vars

\* The holdings list and the edit form of one holding (lines 310-311, 360-472).
\* The "编辑" button of a listed holding opens the form on it.
OpenEdit ==
    /\ \E i \in 1..Len(assets_info) :
        edit_form' = [edit_asset |-> Some(assets_info[i].k), submit |-> NoSubmit]
    /\ save_log' = NoSave
    /\ report' = NoReport
    /\ UNCHANGED <<db_categories, edit_categories, temp_categories, edits,
                   assets_info, sizing>>

\* The form's "取消" button.
CancelEdit ==
    /\ edit_form.edit_asset # None
    /\ edit_form' = NoForm
    /\ save_log' = NoSave
    /\ report' = NoReport
    /\ UNCHANGED <<db_categories, edit_categories, temp_categories, edits,
                   assets_info, sizing>>

\* What the form is submitted with besides the name: type, quantity and
\* category (an option of the current hierarchy).
EditFormInputs ==
    { Asset("etf", 150, <<"flex", Dash, "cash">>),
      Asset("fund", 0, <<"bond", Dash, "credit">>) }

\* What delete_asset_from_db(asset_name) does to the store: "ok" removes the
\* name, "absent" and "failed" write nothing.
DeleteOutcome(assets, asset_name, delete_ok) ==
    IF ~delete_ok THEN "failed"
    ELSE IF Has(assets, asset_name) THEN "ok"
    ELSE "absent"

SubmitRecord(original_name, new_name, data, delete, write) ==
    [submitted |-> TRUE, original_name |-> original_name, new_name |-> new_name,
     data |-> data, delete |-> delete, write |-> write]

\* The same handler writing the new data first and deleting the old name only
\* once that write has succeeded.
SubmitEditWriteFirst ==
    /\ edit_form.edit_asset # None
    /\ \E new_name \in AssetNames, data \in EditFormInputs,
          delete_ok \in BOOLEAN, read_ok \in BOOLEAN, write_ok \in BOOLEAN :
        LET original_name == TheValue(edit_form.edit_asset)
            new_category == data.category
            write == IF ~read_ok THEN "not_reached"
                     ELSE IF write_ok THEN "ok" ELSE "failed"
            final_assets == Put(assets_info, new_name, data)
            delete == IF original_name = new_name \/ write # "ok" THEN "skipped"
                      ELSE DeleteOutcome(final_assets, original_name, delete_ok)
        IN /\ Has(flatten_categories(db_categories).target_ratio_sub, new_category)
           /\ assets_info' = IF write # "ok" THEN assets_info
                             ELSE IF delete = "ok"
                                  THEN Del(final_assets, original_name)
                                  ELSE final_assets
           /\ edit_form' =
                [edit_asset |-> IF write = "ok" THEN None
                                ELSE edit_form.edit_asset,
                 submit |-> SubmitRecord(original_name, new_name, data,
                                         delete, write)]
    /\ save_log' = NoSave
    /\ report' = NoReport
    /\ UNCHANGED <<db_categories, edit_categories, temp_categories, edits,
                   sizing>>

\* The form's "确认保存" button: with a changed name delete_asset_from_db runs
\* first and its result is ignored, the holdings are read again (outside the
\* try), and the merged holdings are written.
SubmitEdit ==
    /\ edit_form.edit_asset # None
    /\ \E new_name \in AssetNames, data \in EditFormInputs,
          delete_ok \in BOOLEAN, read_ok \in BOOLEAN, write_ok \in BOOLEAN :
        LET original_name == TheValue(edit_form.edit_asset)
            new_category == data.category
            delete == IF original_name = new_name THEN "skipped"
                      ELSE DeleteOutcome(assets_info, original_name, delete_ok)
            current_assets == IF delete = "ok"
                              THEN Del(assets_info, original_name)
                              ELSE assets_info
            write == IF ~read_ok THEN "not_reached"
                     ELSE IF write_ok THEN "ok" ELSE "failed"
            final_assets == Put(current_assets, new_name, data)
        IN /\ Has(flatten_categories(db_categories).target_ratio_sub, new_category)
           /\ assets_info' = IF write = "ok" THEN final_assets ELSE current_assets
           /\ edit_form' =
                [edit_asset |-> IF write = "ok" THEN None
                                ELSE edit_form.edit_asset,
                 submit |-> SubmitRecord(original_name, new_name, data,
                                         delete, write)]
    /\ save_log' = NoSave
    /\ report' = NoReport
    /\ UNCHANGED <<db_categories, edit_categories, temp_categories, edits,
                   sizing>>

NextHoldings ==
    \/ AddAsset
    \/ DeleteAsset
    \/ AssetWriteFails
    \/ OpenEdit
    \/ CancelEdit
    \/ SubmitEdit

SpecHoldings == Init /\ [][NextHoldings]_vars

\* The share sizing on its own, over base_shares and held quantities.
NextSizing == SizeHolding

SpecSizing == Init /\ [][NextSizing]_vars

-----------------------------------------------------------------------------
(* The computation over holdings and hierarchies that exercise the advisor *)

\* The default edited by: set 信用/信用 to 0.19, add "cash-gold" (0.01) to 债券.
H_early ==
    [DEFAULT_CATEGORIES EXCEPT
        ![1].v.subcategories =
            << Minor(<<"rate_gov">>, 200), Minor(<<"credit">>, 190),
               Minor(<<"cash", Dash, "gold">>, 10) >>]

AdvisorHierarchyInputs == {H_zero, H_early}

\* Holdings typed into the form: type, "持有份额", "所属分类".
AdvisorAssetInputs ==
    { Asset("fund", 120, <<"bond", Dash, "rate_gov">>),
      Asset("etf", 130, <<"bond", Dash, "rate_gov">>),
      Asset("fund", 0, <<"bond", Dash, "rate_gov">>),
      Asset("cash", 760, <<"bond", Dash, "credit">>),
      Asset("etf", 400, <<"stock", Dash, "us">>),
      Asset("fund", 120, LIQUIDITY),
      Asset("cash", 3200, LIQUIDITY) }

\* "确认添加" with one of the holdings above
AddAdvisedAsset ==
    /\ \E asset_name \in AssetNames, new_asset \in AdvisorAssetInputs :
        /\ Has(flatten_categories(db_categories).target_ratio_sub,
               new_asset.category)
        /\ assets_info' = Put(assets_info, asset_name, new_asset)
    /\ Rerun

\* An edit session ending in "保存配置" with one of the working copies above
AdvisedEditSession ==
    /\ ~edit_categories
    /\ \E h \in AdvisorHierarchyInputs :
        LET res == save_categories_to_db(h, TRUE)
        IN /\ h # db_categories
           /\ save_log' = SaveLog("save", h, res)
           /\ db_categories' = IF res.stored # None THEN TheValue(res.stored)
                               ELSE db_categories
    /\ report' = NoReport
    /\ UNCHANGED <<edit_categories, temp_categories, edits, assets_info, sizing,
                   edit_form>>

NextAdvisor ==
    \/ AddAdvisedAsset
    \/ DeleteAsset
    \/ AssetWriteFails
    \/ AdvisedEditSession
    \/ ResetDefault
    \/ Compute

SpecAdvisor == Init /\ [][NextAdvisor]_vars

-----------------------------------------------------------------------------
(* The ratio invariants, stated on the hierarchy itself *)

RECURSIVE SeqSum(_)
SeqSum(s) == IF s = <<>> THEN 0 ELSE s[1] + SeqSum(Tail(s))

MajorRatios(h) == [i \in 1..Len(h) |-> h[i].v.ratio]
MinorRatios(h, i) ==
    [j \in 1..Len(h[i].v.subcategories) |-> h[i].v.subcategories[j].v]

\* Invariant A: the major ratios sum to within [0.99, 1.01].
InvariantA(h) ==
    /\ 100 * SeqSum(MajorRatios(h)) >= 99 * RatioScale
    /\ 100 * SeqSum(MajorRatios(h)) <= 101 * RatioScale

\* Invariant B for major i: its subcategory ratios sum to within 1% of its ratio.
InvariantBAt(h, i) ==
    /\ 100 * SeqSum(MinorRatios(h, i)) >= 99 * h[i].v.ratio
    /\ 100 * SeqSum(MinorRatios(h, i)) <= 101 * h[i].v.ratio

InvariantB(h) == \A i \in 1..Len(h) : InvariantBAt(h, i)

Pairs(h) ==
    UNION { {<<i, j>> : j \in 1..Len(h[i].v.subcategories)} : i \in 1..Len(h) }
PairKey(h, p) == h[p[1]].k \o <<"-">> \o h[p[1]].v.subcategories[p[2]].k
PairRatio(h, p) == h[p[1]].v.subcategories[p[2]].v
Later(p, q) == p[1] > q[1] \/ (p[1] = q[1] /\ p[2] > q[2])

-----------------------------------------------------------------------------
(* C1: every hierarchy written to the store satisfies Invariant A and
   Invariant B; a save that returns True has stored exactly its (valid)
   argument, and an invalid argument is never stored. *)
C1_StoredHierarchyValid ==
    /\ InvariantA(db_categories) /\ InvariantB(db_categories)
    /\ (save_log.called /\ save_log.ret) =>
          /\ db_categories = save_log.arg
          /\ InvariantA(save_log.arg) /\ InvariantB(save_log.arg)
    /\ (save_log.called /\ ~(InvariantA(save_log.arg) /\ InvariantB(save_log.arg)))
          => ~save_log.ret

\* An edited hierarchy has been committed.
C1_Witness ==
    /\ save_log.called /\ save_log.ret
    /\ db_categories # DEFAULT_CATEGORIES
    /\ edits > 0

(* C2: the stored hierarchy changes only in a run that called
   save_categories_to_db with a hierarchy satisfying Invariants A and B, and
   then it becomes that hierarchy; a working-copy edit or a rejected save
   leaves it as it was. *)
C2_StoreChangesOnlyOnValidSave ==
    [][ db_categories' # db_categories =>
          /\ save_log'.called /\ save_log'.ret
          /\ db_categories' = save_log'.arg
          /\ InvariantA(save_log'.arg) /\ InvariantB(save_log'.arg) ]_vars

\* A save of an edited working copy was rejected by validation and the store
\* still holds the hierarchy the session started from.
C2_Witness ==
    /\ save_log.called /\ ~save_log.ret
    /\ save_log.errors[1].kind # "db"
    /\ edits > 0
    /\ temp_categories = Some(save_log.arg)
    /\ db_categories # save_log.arg

(* C3: validation passes iff Invariants A and B hold (bounds inclusive); a
   hierarchy violating A gets one major-total error carrying the total, even
   when it violates B too; one satisfying A but not B gets one error, for the
   first major in declaration order whose subcategory total is out of range. *)
C3_ValidationFirstViolation ==
    save_log.called =>
        LET h == save_log.arg
            errs == save_log.errors
            passed == errs = <<>> \/ errs[1].kind = "db"
        IN /\ passed <=> (InvariantA(h) /\ InvariantB(h))
           /\ Len(errs) <= 1
           /\ ~InvariantA(h) =>
                /\ Len(errs) = 1
                /\ errs[1].kind = "major"
                /\ errs[1].total = SeqSum(MajorRatios(h))
           /\ (InvariantA(h) /\ ~InvariantB(h)) =>
                /\ Len(errs) = 1
                /\ errs[1].kind = "minor"
                /\ \E i \in 1..Len(h) :
                     /\ ~InvariantBAt(h, i)
                     /\ \A n \in 1..(i - 1) : InvariantBAt(h, n)
                     /\ errs[1].major = h[i].k
                     /\ errs[1].ratio = h[i].v.ratio
                     /\ errs[1].total = SeqSum(MinorRatios(h, i))

\* A hierarchy violating both invariants was validated.
C3_Witness ==
    /\ save_log.called
    /\ ~InvariantA(save_log.arg) /\ ~InvariantB(save_log.arg)
    /\ save_log.errors[1].kind = "major"

\* A hierarchy satisfying A whose second bad major is not the one reported.
C3_WitnessMinor ==
    /\ save_log.called
    /\ InvariantA(save_log.arg)
    /\ Cardinality({i \in 1..Len(save_log.arg) : ~InvariantBAt(save_log.arg, i)}) >= 2

\* A hierarchy on the inclusive upper bounds of A and B was accepted.
C3_WitnessBounds ==
    /\ save_log.called /\ save_log.ret
    /\ 100 * SeqSum(MajorRatios(save_log.arg)) = 101 * RatioScale
    /\ \E i \in 1..Len(save_log.arg) :
         100 * SeqSum(MinorRatios(save_log.arg, i)) = 101 * save_log.arg[i].v.ratio

(* C4 (as claimed): every major ratio and every subcategory ratio of the
   stored hierarchy is strictly between 0 and 1. *)
C4_AllRatiosInUnitInterval ==
    \A i \in 1..Len(db_categories) :
        /\ 0 < db_categories[i].v.ratio /\ db_categories[i].v.ratio < RatioScale
        /\ \A j \in 1..Len(db_categories[i].v.subcategories) :
             /\ 0 < db_categories[i].v.subcategories[j].v
             /\ db_categories[i].v.subcategories[j].v < RatioScale

(* C5 (as claimed): for the stored (validated) hierarchy, the flattened major
   ratios sum to the input total and, for each major, its flattened
   'major-minor' entries sum to exactly that major's ratio. *)
C5_FlattenSumsExact ==
    LET h == db_categories
        flat == flatten_categories(h)
    IN /\ SeqSum([i \in 1..Len(flat.target_ratio) |-> flat.target_ratio[i].v])
            = SeqSum(MajorRatios(h))
       /\ \A i \in 1..Len(h) :
            SeqSum([j \in 1..Len(h[i].v.subcategories) |->
                       Get(flat.target_ratio_sub, PairKey(h, <<i, j>>))])
                = h[i].v.ratio

\* Major i shares none of its keys with another major.
KeysUnshared(h, i) ==
    \A p \in Pairs(h), q \in Pairs(h) :
        (p[1] = i /\ q[1] # i) => PairKey(h, p) # PairKey(h, q)

(* C5 (amended): for the stored (validated) hierarchy, the flattened major
   table has the input's names and ratios, so the same total; the subcategory
   table has exactly the keys 'major-minor' of the hierarchy, each holding the
   ratio of the last pair in declaration order that produces the key; and for
   each major that shares no key with another major its entries sum to the
   sum of its subcategory ratios, which is within 1% of the major's ratio. *)
C5_FlattenSumsWithinTolerance ==
    LET h == db_categories
        flat == flatten_categories(h)
    IN /\ Len(flat.target_ratio) = Len(h)
       /\ \A i \in 1..Len(h) :
            flat.target_ratio[i].k = h[i].k /\ flat.target_ratio[i].v = h[i].v.ratio
       /\ SeqSum([i \in 1..Len(flat.target_ratio) |-> flat.target_ratio[i].v])
            = SeqSum(MajorRatios(h))
       /\ {flat.target_ratio_sub[n].k : n \in 1..Len(flat.target_ratio_sub)}
            = {PairKey(h, p) : p \in Pairs(h)}
       /\ \A p \in Pairs(h) :
            \E q \in Pairs(h) :
                /\ PairKey(h, q) = PairKey(h, p)
                /\ \A r \in Pairs(h) : PairKey(h, r) = PairKey(h, p) => ~Later(r, q)
                /\ Get(flat.target_ratio_sub, PairKey(h, p)) = PairRatio(h, q)
       /\ \A i \in 1..Len(h) :
            KeysUnshared(h, i) =>
                LET total == SeqSum([j \in 1..Len(h[i].v.subcategories) |->
                                Get(flat.target_ratio_sub, PairKey(h, <<i, j>>))])
                IN /\ total = SeqSum(MinorRatios(h, i))
                   /\ 100 * total >= 99 * h[i].v.ratio
                   /\ 100 * total <= 101 * h[i].v.ratio

\* A committed hierarchy with a major whose subcategories do not sum to its
\* ratio (but to within 1% of it).
C5_Witness ==
    /\ save_log.called /\ save_log.ret
    /\ \E i \in 1..Len(db_categories) :
         /\ KeysUnshared(db_categories, i)
         /\ SeqSum(MinorRatios(db_categories, i)) # db_categories[i].v.ratio

(* C6 (as claimed): the keys 'major-minor' of the stored hierarchy are
   pairwise distinct, so flatten_categories yields one entry per (major,
   subcategory) pair. *)
C6_KeysPairwiseDistinct ==
    LET h == db_categories
    IN /\ \A p \in Pairs(h), q \in Pairs(h) :
            p # q => PairKey(h, p) # PairKey(h, q)
       /\ Len(flatten_categories(h).target_ratio_sub) = Cardinality(Pairs(h))

-----------------------------------------------------------------------------
(* The portfolio computation, stated on the holdings themselves *)

Holdings == 1..Len(assets_info)
TargetSub == flatten_categories(db_categories).target_ratio_sub
TargetMajor == flatten_categories(db_categories).target_ratio

\* The market value of holding i under the quotes of the report.
MarketValue(i) ==
    LET info == assets_info[i].v
        q == report.quote[assets_info[i].k]
    IN IF info.type = "cash" THEN info.amount * RatioScale
       ELSE IF q.kind = "price" THEN info.amount * q.close
       ELSE 0

RECURSIVE ValueSum(_)
\* The sum of the market values of the holdings in S.
ValueSum(S) ==
    IF S = {} THEN 0
    ELSE LET x == CHOOSE y \in S : TRUE
         IN MarketValue(x) + ValueSum(S \ {x})

\* The part of a key before its first "-".
RECURSIVE MajorPart(_)
MajorPart(key) ==
    IF key = <<>> \/ key[1] = "-" THEN <<>> ELSE <<key[1]>> \o MajorPart(Tail(key))

Orphaned(i) == ~Has(TargetSub, assets_info[i].v.category)

(* C7 (as claimed): a cash holding is valued at its quantity with no price
   lookup; a holding with a price is valued at quantity x price; a holding
   whose lookup raises or returns no data is valued 0 and gets a warning;
   each holding's value depends on its own lookup only. *)
C7_ValuationPerHolding ==
    report.status # "none" =>
        /\ Len(report.current_values) = Len(assets_info)
        /\ \A i \in Holdings :
            LET info == assets_info[i].v
                name == assets_info[i].k
                q == report.quote[name]
            IN /\ report.current_values[i].k = name
               /\ report.current_values[i].v = MarketValue(i)
               /\ info.type = "cash" => name \notin report.lookups
               /\ (info.type # "cash" /\ q.kind \in {"raise", "empty"}) =>
                     name \in report.warnings

(* C7 without the warning for an empty frame: the values are as claimed, and
   the holdings warned about are exactly those whose lookup raised. *)
C7_ValuationWarnsOnRaiseOnly ==
    report.status # "none" =>
        /\ Len(report.current_values) = Len(assets_info)
        /\ \A i \in Holdings :
            LET info == assets_info[i].v
                name == assets_info[i].k
                q == report.quote[name]
            IN /\ report.current_values[i].k = name
               /\ report.current_values[i].v = MarketValue(i)
               /\ info.type = "cash" => name \notin report.lookups
               /\ name \in report.warnings <=>
                     (info.type # "cash" /\ q.kind = "raise")

\* The actual value the deviation output holds for entry n of a diff table.
ActualOf(diffs, targets, n) ==
    diffs[n].v.diff + (report.total_value * targets[n].v) \div RatioScale

(* C8 (as claimed): an orphaned holding adds nothing to the actual value of
   any subcategory or major category of the deviation output. *)
C8_OrphansExcluded ==
    report.status = "ok" =>
        /\ \A n \in 1..Len(TargetSub) :
             LET members == {i \in Holdings :
                               /\ ~Orphaned(i)
                               /\ assets_info[i].v.category = TargetSub[n].k}
             IN ActualOf(report.sub_diff, TargetSub, n) = ValueSum(members)
        /\ \A n \in 1..Len(TargetMajor) :
             LET members == {i \in Holdings :
                               /\ ~Orphaned(i)
                               /\ MajorPart(assets_info[i].v.category) = TargetMajor[n].k}
             IN ActualOf(report.cls_diff, TargetMajor, n) = ValueSum(members)

\* Deviation entry e of key with ratio tar and holdings `members`.
DeviationAsClaimed(e, tar, members) ==
    LET total == ValueSum(Holdings)
        target_value == (total * tar) \div RatioScale
        actual_value == ValueSum(members)
    IN /\ (total * tar) % RatioScale = 0
       /\ e.diff = actual_value - target_value
       /\ e.diff_ratio.den # 0
       /\ target_value # 0 =>
            /\ e.diff_ratio.num = 100 * (actual_value - target_value)
            /\ e.diff_ratio.den = target_value
       /\ target_value = 0 => e.diff_ratio.num = 0

(* C9: for every configured key at both levels, target_value = total x
   target_ratio, deviation_value = actual_value - target_value, and the
   deviation percentage (held in percent) is deviation_value / target_value
   when target_value is non-zero and 0 when it is 0; no division by zero. *)
C9_DeviationFormulas ==
    report.status = "ok" =>
        /\ report.total_value = ValueSum(Holdings)
        /\ Len(report.sub_diff) = Len(TargetSub)
        /\ Len(report.cls_diff) = Len(TargetMajor)
        /\ \A n \in 1..Len(TargetSub) :
             /\ report.sub_diff[n].k = TargetSub[n].k
             /\ DeviationAsClaimed(report.sub_diff[n].v, TargetSub[n].v,
                  {i \in Holdings : assets_info[i].v.category = TargetSub[n].k})
             /\ report.sub_table[n].v.target_amount
                  = Round2((report.total_value * TargetSub[n].v) \div RatioScale)
        /\ \A n \in 1..Len(TargetMajor) :
             /\ report.cls_diff[n].k = TargetMajor[n].k
             /\ DeviationAsClaimed(report.cls_diff[n].v, TargetMajor[n].v,
                  {i \in Holdings :
                     MajorPart(assets_info[i].v.category) = TargetMajor[n].k})
             /\ report.cls_table[n].v.target_amount
                  = Round2((report.total_value * TargetMajor[n].v) \div RatioScale)

\* A report with a positive total in which one subcategory has ratio 0 (so
\* target 0) and holdings, and another has a non-zero deviation percentage.
C9_Witness ==
    /\ report.status = "ok"
    /\ report.total_value > 0
    /\ \E n \in 1..Len(report.sub_diff) :
         /\ TargetSub[n].v = 0
         /\ report.sub_diff[n].v.diff > 0
         /\ report.sub_diff[n].v.diff_ratio.num = 0
    /\ \E n \in 1..Len(report.sub_diff) : report.sub_diff[n].v.diff_ratio.num < 0

\* A report whose total is 0 although holdings exist.
C9_WitnessTotalZero ==
    /\ report.status = "ok"
    /\ report.total_value = 0
    /\ \A n \in 1..Len(report.sub_diff) : report.sub_diff[n].v.diff_ratio.num = 0

RECURSIVE Dedup(_, _)
\* The sequence s without the later repetitions of its elements.
Dedup(s, seen) ==
    IF s = <<>> THEN <<>>
    ELSE IF s[1] \in seen THEN Dedup(Tail(s), seen)
    ELSE <<s[1]>> \o Dedup(Tail(s), seen \cup {s[1]})

RECURSIVE DeclaredKeys(_)
\* The keys 'major-minor' in the hierarchy's declaration order.
DeclaredKeys(h) ==
    IF h = <<>> THEN <<>>
    ELSE [j \in 1..Len(h[1].v.subcategories) |->
             h[1].k \o <<"-">> \o h[1].v.subcategories[j].k]
         \o DeclaredKeys(Tail(h))

(* C10: each deviation table has exactly one row per configured key, in the
   hierarchy's declaration order, and a configured key no holding maps to has
   actual value 0 and deviation value -target value. *)
C10_RowPerConfiguredKey ==
    report.status = "ok" =>
        /\ Keys(report.sub_table) = Dedup(DeclaredKeys(db_categories), {})
        /\ Keys(report.sub_diff) = Keys(report.sub_table)
        /\ Keys(report.cls_table) = [n \in 1..Len(db_categories) |-> db_categories[n].k]
        /\ Keys(report.cls_diff) = Keys(report.cls_table)
        /\ \A n \in 1..Len(report.sub_table) :
             (\A i \in Holdings : assets_info[i].v.category # report.sub_table[n].k) =>
                /\ report.sub_table[n].v.current_amount = 0
                /\ report.sub_table[n].v.diff_amount
                     = - report.sub_table[n].v.target_amount
                /\ report.sub_diff[n].v.diff
                     = - ((report.total_value * TargetSub[n].v) \div RatioScale)
        /\ \A n \in 1..Len(report.cls_table) :
             (\A i \in Holdings :
                 MajorPart(assets_info[i].v.category) # report.cls_table[n].k) =>
                /\ report.cls_table[n].v.current_amount = 0
                /\ report.cls_table[n].v.diff_amount
                     = - report.cls_table[n].v.target_amount
                /\ report.cls_diff[n].v.diff
                     = - ((report.total_value * TargetMajor[n].v) \div RatioScale)

\* A report with a positive total and a configured subcategory and a
\* configured major that no holding maps to.
C10_Witness ==
    /\ report.status = "ok"
    /\ report.total_value > 0
    /\ \E n \in 1..Len(report.sub_table) :
         /\ \A i \in Holdings : assets_info[i].v.category # report.sub_table[n].k
         /\ report.sub_table[n].v.diff_amount < 0
    /\ \E n \in 1..Len(report.cls_table) :
         /\ \A i \in Holdings :
              MajorPart(assets_info[i].v.category) # report.cls_table[n].k
         /\ report.cls_table[n].v.diff_amount < 0

-----------------------------------------------------------------------------
(* The share sizing, stated on one holding *)

\* floor(a / 100) * 100 for a >= 0, by search: the multiple of 100 that is at
\* most a and within 100 of it.
LotFloor(a) ==
    CHOOSE m \in 0..(a.n \div a.d) :
        m % 100 = 0 /\ m * a.d <= a.n /\ (m + 100) * a.d > a.n

\* The multiples of 1/100 nearest to x (two of them when x is halfway).
Nearest(x) ==
    LET f == (100 * x.n) \div x.d
    IN { a \in {Q(f, 100), Q(f + 1, 100)} :
           2 * Abs((a.n * (100 \div a.d)) * x.d - 100 * x.n) <= x.d }

(* C16: for an 'etf' holding with base_shares > 0 the shares suggested are the
   largest multiple of 100 not above base_shares, shown as a purchase when
   non-zero; below 100 no purchase is suggested. *)
C16_EtfBuyRoundsDown ==
    (sizing.asset_type = "etf" /\ QPos(sizing.base_shares)) =>
        /\ sizing.adjust_shares = QInt(LotFloor(sizing.base_shares))
        /\ ~QGreater(sizing.adjust_shares, sizing.base_shares)
        /\ IF QGreater(QInt(100), sizing.base_shares)
           THEN sizing.shown.direction = "none"
           ELSE /\ sizing.shown.direction = "buy"
                /\ sizing.shown.quantity = QInt(LotFloor(sizing.base_shares))

C16_Witness ==
    /\ sizing.asset_type = "etf"
    /\ sizing.base_shares = QInt(237)
    /\ sizing.shown.direction = "buy"
    /\ sizing.shown.quantity = QInt(200)

C16_WitnessBelowLot ==
    /\ sizing.asset_type = "etf"
    /\ sizing.base_shares = QInt(99)
    /\ sizing.shown.direction = "none"

(* C17 (as claimed): for an 'etf' holding with base_shares < 0 the shares to
   sell are the largest multiple of 100 not above |base_shares|, replaced,
   when that exceeds the shares held, by the largest multiple of 100 not
   above the shares held. *)
C17_EtfSellRoundsDown ==
    (sizing.asset_type = "etf" /\ QNegative(sizing.base_shares)) =>
        LET lot == LotFloor(QAbs(sizing.base_shares))
            sell == IF QGreater(QInt(lot), sizing.current_shares)
                    THEN LotFloor(sizing.current_shares)
                    ELSE lot
        IN sizing.adjust_shares = QInt(-sell)

\* The part of C17 the code keeps: a multiple of 100, at most |base_shares|,
\* at most the shares held.
C17_EtfSellWithinBounds ==
    (sizing.asset_type = "etf" /\ QNegative(sizing.base_shares)) =>
        /\ sizing.adjust_shares.d = 1
        /\ sizing.adjust_shares.n % 100 = 0
        /\ sizing.adjust_shares.n <= 0
        /\ ~QGreater(QAbs(sizing.adjust_shares), QAbs(sizing.base_shares))
        /\ ~QGreater(QAbs(sizing.adjust_shares), sizing.current_shares)

(* C18 (as claimed): for a 'fund' holding the shares suggested are base_shares
   rounded to 2 decimal places; a sale whose rounded size exceeds the shares
   held is replaced by a sale of the shares held, so a sale shown never
   exceeds the shares held. *)
C18_FundRoundsAndCaps ==
    (sizing.asset_type = "fund" /\ sizing.base_shares.n # 0) =>
        /\ \E rounded \in Nearest(sizing.base_shares) :
             IF QNegative(rounded) /\ QGreater(QAbs(rounded), sizing.current_shares)
             THEN sizing.adjust_shares = QNeg(sizing.current_shares)
             ELSE sizing.adjust_shares = rounded
        /\ sizing.shown.direction = "sell" =>
             ~QGreater(sizing.shown.quantity, sizing.current_shares)

\* The part of C18 the code keeps: the shares are base_shares rounded to 2
\* decimal places or, for a sale that would exceed them, the shares held
\* rounded to 2 decimal places.
C18_FundRoundsAndCapsAtRoundedHolding ==
    (sizing.asset_type = "fund" /\ sizing.base_shares.n # 0) =>
        \E rounded \in Nearest(sizing.base_shares) :
            IF QNegative(rounded) /\ QGreater(QAbs(rounded), sizing.current_shares)
            THEN QNeg(sizing.adjust_shares) \in Nearest(sizing.current_shares)
            ELSE sizing.adjust_shares = rounded

-----------------------------------------------------------------------------
(* The advisor, stated on the report of the latest computation *)

\* The advisor got as far as the threshold filter.
AdvisorRan ==
    /\ report.status = "ok"
    /\ report.advisor.status \in {"balanced", "advice", "raised"}

\* The keys of significant_adj.
Actionable ==
    { report.advisor.significant_adj[n].k :
        n \in 1..Len(report.advisor.significant_adj) }

\* |deviation_pct| >= 0.20 for key k, from the deviation analysis: sub_diff
\* over target_value, held there as a percentage num/den (0/1 when the
\* target value is 0).
DeviatesBy20(k) ==
    LET r == Get(report.sub_diff, k).diff_ratio
    IN Abs(r.num) >= 20 * Abs(r.den)

\* The suggestions shown: <<category, holding, what is shown>>.
Suggestions ==
    UNION { { <<report.advisor.advice[n].k,
                report.advisor.advice[n].v.holdings[j].name,
                report.advisor.advice[n].v.holdings[j].shown>> :
                j \in { j \in 1..Len(report.advisor.advice[n].v.holdings) :
                          report.advisor.advice[n].v.holdings[j].shown.direction
                              # "none" } } :
            n \in 1..Len(report.advisor.advice) }

\* What is shown for holding i (of assets_info).
ShownFor(i) == { s[3] : s \in { t \in Suggestions : t[2] = assets_info[i].k } }

(* C11 (as claimed): a configured subcategory is in the actionable set iff
   |deviation_pct| >= 0.20 and it is not the liquidity subcategory, where
   deviation_pct = deviation_value / target_value of the deviation analysis,
   0 when target_value is 0. *)
C11_ActionableIffDeviates ==
    AdvisorRan =>
        \A n \in 1..Len(TargetSub) :
            LET k == TargetSub[n].k
            IN k \in Actionable <=> (DeviatesBy20(k) /\ k # LIQUIDITY)

\* C11 for the subcategories whose target ratio is positive; a deviation of
\* exactly 20% is actionable.
C11_ActionableIffDeviatesPositiveTarget ==
    AdvisorRan =>
        \A n \in 1..Len(TargetSub) :
            LET k == TargetSub[n].k
            IN TargetSub[n].v > 0 =>
                 (k \in Actionable <=> (DeviatesBy20(k) /\ k # LIQUIDITY))

C11_WitnessExactly20 ==
    /\ AdvisorRan
    /\ \E k \in Actionable :
         LET r == Get(report.sub_diff, k).diff_ratio
         IN Abs(r.num) = 20 * Abs(r.den) /\ r.den # 0

C11_WitnessBelow20 ==
    /\ AdvisorRan
    /\ \E n \in 1..Len(TargetSub) :
         LET r == Get(report.sub_diff, TargetSub[n].k).diff_ratio
         IN /\ TargetSub[n].k \notin Actionable
            /\ TargetSub[n].k # LIQUIDITY
            /\ r.num # 0

(* C12: the liquidity subcategory (flex-cash, '机动-现金') is never in the
   actionable set and none of its holdings is shown a purchase or a sale,
   however large its deviation. *)
C12_LiquidityNeverActionable ==
    AdvisorRan =>
        /\ LIQUIDITY \notin Actionable
        /\ \A i \in Holdings :
             assets_info[i].v.category = LIQUIDITY => ShownFor(i) = {}

C12_Witness ==
    /\ AdvisorRan
    /\ report.advisor.status = "advice"
    /\ Has(TargetSub, LIQUIDITY)
    /\ DeviatesBy20(LIQUIDITY)
    /\ Suggestions # {}
    /\ \E i \in Holdings :
         /\ assets_info[i].v.category = LIQUIDITY
         /\ assets_info[i].v.type = "fund"
         /\ MarketValue(i) > 0

(* C13 (as claimed): for an actionable subcategory c with deviation_value(c) =
   actual_value(c) - target_value(c) of the deviation analysis, a positive
   deviation_value means only purchases are shown for its holdings and a
   negative one only sales. *)
C13_PositiveDeviationBuys ==
    AdvisorRan =>
        \A s \in Suggestions :
            LET deviation_value == Get(report.sub_diff, s[1]).diff
            IN /\ deviation_value > 0 => s[3].direction = "buy"
               /\ deviation_value < 0 => s[3].direction = "sell"

(* C13 (amended): for an actionable subcategory c with deviation_value(c) =
   actual_value(c) - target_value(c) of the deviation analysis, a positive
   deviation_value (c is overweight) means only sales are shown for its
   holdings and a negative one (c is underweight) only purchases; nothing is
   shown when it is 0. *)
C13_PositiveDeviationSells ==
    AdvisorRan =>
        \A s \in Suggestions :
            LET deviation_value == Get(report.sub_diff, s[1]).diff
            IN /\ s[1] \in Actionable
               /\ deviation_value # 0
               /\ deviation_value > 0 => s[3].direction = "sell"
               /\ deviation_value < 0 => s[3].direction = "buy"

C13_Witness ==
    /\ AdvisorRan
    /\ \E s \in Suggestions :
         Get(report.sub_diff, s[1]).diff > 0 /\ s[3].direction = "sell"

C13_WitnessBuy ==
    /\ AdvisorRan
    /\ \E s \in Suggestions :
         Get(report.sub_diff, s[1]).diff < 0 /\ s[3].direction = "buy"

\* The holdings mapped to category c, and their total market value.
HoldingsOf(c) == { i \in Holdings : assets_info[i].v.category = c }
CategoryTotal(c) == ValueSum(HoldingsOf(c))

\* The expanders shown for category c (at most one).
ExpandersOf(c) ==
    { n \in 1..Len(report.advisor.advice) : report.advisor.advice[n].k = c }

(* C14 (as claimed): for an actionable subcategory whose holdings have total
   market value 0 (no holdings, or holdings all valued 0) the advisor shows
   the note that the subcategory has no holdings and no suggestion. *)
C14_NoteWhenCategoryTotalZero ==
    AdvisorRan =>
        \A c \in Actionable :
            CategoryTotal(c) = 0 =>
                /\ \E n \in ExpandersOf(c) :
                     report.advisor.advice[n].v.no_assets_note
                /\ \A s \in Suggestions : s[1] # c

\* What the code keeps of C14: the note is shown exactly for the expanders of
\* the subcategories without holdings, and nothing is suggested for a
\* subcategory whose total market value is 0.
C14_NoteOnlyWithoutHoldings ==
    AdvisorRan =>
        /\ \A n \in 1..Len(report.advisor.advice) :
             report.advisor.advice[n].v.no_assets_note
                 <=> HoldingsOf(report.advisor.advice[n].k) = {}
        /\ \A c \in Actionable :
             CategoryTotal(c) = 0 => \A s \in Suggestions : s[1] # c

C14_WitnessHeldButWorthless ==
    /\ AdvisorRan
    /\ \E n \in 1..Len(report.advisor.advice) :
         /\ HoldingsOf(report.advisor.advice[n].k) # {}
         /\ CategoryTotal(report.advisor.advice[n].k) = 0
         /\ ~report.advisor.advice[n].v.no_assets_note

QAdd(a, b) == QSub(a, QNeg(b))

RECURSIVE QSum(_)
\* The sum of a sequence of fractions.
QSum(qs) == IF qs = <<>> THEN QInt(0) ELSE QAdd(qs[1], QSum(Tail(qs)))

\* The correction subcategory c requires, from the deviation analysis:
\* target_value - actual_value.
RequiredCorrection(c) == QInt(-Get(report.sub_diff, c).diff)

\* Expander n distributes the required correction of its subcategory over
\* its holdings in proportion to their market values.
Proportional(n) ==
    LET c == report.advisor.advice[n].k
        hs == report.advisor.advice[n].v.holdings
    IN /\ { hs[j].name : j \in 1..Len(hs) }
            = { assets_info[i].k : i \in HoldingsOf(c) }
       /\ Len(hs) = Cardinality(HoldingsOf(c))
       /\ \A j \in 1..Len(hs) : \A i \in HoldingsOf(c) :
            hs[j].name = assets_info[i].k =>
                /\ hs[j].asset_value_ratio = Q(MarketValue(i), CategoryTotal(c))
                /\ hs[j].asset_adjust_value =
                       QMul(RequiredCorrection(c),
                            Q(MarketValue(i), CategoryTotal(c)))
       /\ QSum([j \in 1..Len(hs) |-> hs[j].asset_value_ratio]) = QInt(1)
       /\ QSum([j \in 1..Len(hs) |-> hs[j].asset_adjust_value])
              = RequiredCorrection(c)

(* C15: for an actionable subcategory c with category_total > 0, each holding
   h of c gets value_adjustment(h) = (required correction of c) x
   market_value(h) / category_total; the weights of c's holdings sum to 1 and
   their value adjustments to the required correction.  Every actionable
   subcategory is so treated when the advisor runs to its end. *)
C15_ProportionalAdjustment ==
    AdvisorRan =>
        /\ \A c \in Actionable :
             CategoryTotal(c) > 0 => \A n \in ExpandersOf(c) : Proportional(n)
        /\ report.advisor.status = "advice" =>
             \A c \in Actionable : ExpandersOf(c) # {}

C15_WitnessTwoHoldings ==
    /\ AdvisorRan
    /\ \E n \in 1..Len(report.advisor.advice) :
         LET hs == report.advisor.advice[n].v.holdings
         IN /\ Len(hs) = 2
            /\ QPos(hs[1].asset_value_ratio)
            /\ QPos(hs[2].asset_value_ratio)
            /\ hs[1].asset_value_ratio # hs[2].asset_value_ratio
            /\ Proportional(n)

\* The suggestion the claim gives holding i: for a holding of an actionable
\* subcategory worth something, the share of the required correction that
\* falls to it, in units, rounded by type; nothing otherwise.
ExpectedShown(i) ==
    LET info == assets_info[i].v
        c == info.category
        unit_value == IF info.amount > 0 THEN Q(MarketValue(i), info.amount)
                      ELSE QInt(RatioScale)
        value_adjustment == QMul(RequiredCorrection(c),
                                 Q(MarketValue(i), CategoryTotal(c)))
        rounded == AdjustShares(info.type, QDiv(value_adjustment, unit_value),
                                QInt(info.amount))
    IN IF c \in Actionable /\ CategoryTotal(c) > 0 /\ QPos(unit_value)
          /\ rounded.n # 0
       THEN { [direction |-> IF rounded.n > 0 THEN "buy" ELSE "sell",
               quantity |-> QAbs(rounded),
               implied_value |-> QMul(QAbs(rounded), unit_value)] }
       ELSE {}

(* C19 (as claimed): a suggestion (holding, direction, quantity, implied_value
   = quantity x unit_value) is shown for exactly the holdings of actionable
   subcategories whose rounded delta is non-zero, a purchase for a positive
   and a sale for a negative delta; a cash holding is never shown one. *)
C19_SuggestionsExactlyNonZero ==
    AdvisorRan =>
        \A i \in Holdings :
            /\ ShownFor(i) = ExpectedShown(i)
            /\ assets_info[i].v.type = "cash" => ShownFor(i) = {}

\* C19 when the advisor runs to its end, and its safety half always: what is
\* shown is what the claim gives, and never for cash.
C19_SuggestionsWhenNotStopped ==
    AdvisorRan =>
        \A i \in Holdings :
            /\ report.advisor.status # "raised" => ShownFor(i) = ExpectedShown(i)
            /\ ShownFor(i) \subseteq ExpectedShown(i)
            /\ assets_info[i].v.type = "cash" => ShownFor(i) = {}

C19_WitnessShown ==
    /\ AdvisorRan
    /\ report.advisor.status = "advice"
    /\ \E i \in Holdings : ShownFor(i) # {}
    /\ \E i \in Holdings :
         /\ assets_info[i].v.type = "cash"
         /\ assets_info[i].v.category \in Actionable

C19_WitnessStopped ==
    /\ AdvisorRan
    /\ report.advisor.status = "raised"
    /\ \E i \in Holdings : ExpectedShown(i) # {} /\ ShownFor(i) = {}

(* C20: the computation modifies neither the stored holdings nor the stored
   hierarchy, and what it shows is determined by the holdings, the prices
   and the hierarchy alone: after any history, the report of a run equals
   the report of a first run on the same holdings, prices and hierarchy, so
   a second run on an unchanged snapshot shows the same tables and
   suggestions. *)
C20_ComputationPureAndRepeatable ==
    [][ report'.status # "none" =>
          /\ assets_info' = assets_info
          /\ db_categories' = db_categories
          /\ report' = ComputeReport(assets_info, db_categories, report'.quote)
          /\ (report.status # "none" /\ report.quote = report'.quote)
                => (report'.sub_table = report.sub_table
                    /\ report'.cls_table = report.cls_table
                    /\ report'.advisor = report.advisor) ]_vars

\* A completed computation over two holdings that shows suggestions (from
\* it the computation can be run again, on the same prices or on others).
C20_Witness ==
    /\ AdvisorRan
    /\ Suggestions # {}
    /\ report = ComputeReport(assets_info, db_categories, report.quote)
    /\ \E i \in Holdings : report.quote[assets_info[i].k].kind = "price"
    /\ Len(assets_info) = 2

-----------------------------------------------------------------------------
(* The edit / save protocol of the category editor *)

\* The step is a run in which "保存配置" was pressed.
SavePressed == save_log'.called /\ save_log'.button = "save"

\* The working copy stays as it is, in edit mode, and the store is untouched.
StaysInEdit ==
    /\ edit_categories'
    /\ temp_categories' = temp_categories
    /\ db_categories' = db_categories

\* The working copy is committed, edit mode ends, the working copy is cleared.
CommitsAndLeaves ==
    /\ db_categories' = temp_cats
    /\ ~edit_categories'
    /\ temp_categories' = None

\* The step enters edit mode.
EntersEdit == ~edit_categories /\ edit_categories'

(* C21 (as claimed): when 'save' is pressed in edit mode and validation fails,
   the editor stays in edit mode with the working copy retained; when
   validation succeeds, the working copy is committed, edit mode ends and the
   working copy is cleared; entering edit mode initialises the working copy
   from the stored hierarchy. *)
C21_SaveProtocol ==
    [][ /\ SavePressed =>
            IF InvariantA(temp_cats) /\ InvariantB(temp_cats)
            THEN CommitsAndLeaves
            ELSE StaysInEdit
        /\ EntersEdit => temp_categories' = Some(db_categories) ]_vars

(* C21 (amended): when 'save' is pressed in edit mode and validation fails, or
   validation succeeds but the write to the store fails, the editor stays in
   edit mode with the working copy retained and the store unchanged; when
   validation and the write succeed, the working copy is committed, edit mode
   ends and the working copy is cleared; entering edit mode initialises the
   working copy from the stored hierarchy. *)
C21_SaveProtocolWithWriteFailure ==
    [][ /\ SavePressed =>
            /\ save_log'.arg = temp_cats
            /\ IF InvariantA(temp_cats) /\ InvariantB(temp_cats)
                  /\ save_log'.errors # <<DbError>>
               THEN save_log'.ret /\ CommitsAndLeaves
               ELSE ~save_log'.ret /\ StaysInEdit
        /\ EntersEdit => temp_categories' = Some(db_categories) ]_vars

\* After a save that validation rejected: still editing the rejected copy,
\* which differs from the stored hierarchy.
C21_Witness ==
    /\ save_log.called /\ save_log.button = "save" /\ ~save_log.ret
    /\ save_log.errors # <<DbError>>
    /\ edit_categories
    /\ temp_categories = Some(save_log.arg)
    /\ db_categories # save_log.arg

\* After a save that went through, of an edited copy.
C21_WitnessCommitted ==
    /\ save_log.called /\ save_log.button = "save" /\ save_log.ret
    /\ ~edit_categories
    /\ temp_categories = None
    /\ db_categories = save_log.arg
    /\ db_categories # DEFAULT_CATEGORIES

\* After a valid save whose write failed.
C21_WitnessWriteFailed ==
    /\ save_log.called /\ save_log.button = "save"
    /\ save_log.errors = <<DbError>>
    /\ edit_categories
    /\ temp_categories = Some(save_log.arg)

(* C22: editing a holding under a changed name *)

\* The step is a submit of the edit form with a changed name.
RenameSubmitted ==
    /\ edit_form'.submit.submitted
    /\ edit_form'.submit.original_name # edit_form'.submit.new_name

\* Every holding under a name other than the two given is stored as before.
OthersUnchanged(old_name, new_name) ==
    \A n \in AssetNames \ {old_name, new_name} :
        /\ Has(assets_info', n) <=> Has(assets_info, n)
        /\ Has(assets_info, n) => Get(assets_info', n) = Get(assets_info, n)

\* The delete is attempted whenever the name changed, whatever becomes of the
\* second write, and a successful delete is visible in the store by itself.
DeleteComesFirst ==
    LET s == edit_form'.submit
    IN /\ s.delete # "skipped"
       /\ s.delete = "ok" => ~Has(assets_info', s.original_name)
       /\ s.delete = "ok" /\ s.write # "ok" =>
            assets_info' = Del(assets_info, s.original_name)

BothWritesSucceed ==
    LET s == edit_form'.submit
    IN s.delete = "ok" /\ s.write = "ok" =>
        /\ ~Has(assets_info', s.original_name)
        /\ Has(assets_info', s.new_name)
        /\ Get(assets_info', s.new_name) = s.data
        /\ OthersUnchanged(s.original_name, s.new_name)

\* C22: a rename is two store writes, the delete of the old name first; if
\* both succeed the old name is absent, the new name holds the edited data
\* and the other holdings are unchanged; if the second write fails the
\* holding is stored under neither the old nor the new name.
C22_RenameIsDeleteThenWrite ==
    [][RenameSubmitted =>
        LET s == edit_form'.submit
        IN /\ DeleteComesFirst
           /\ BothWritesSucceed
           /\ s.write # "ok" =>
                /\ ~Has(assets_info', s.original_name)
                /\ ~Has(assets_info', s.new_name)]_vars

\* C22 with the second clause read on the first write having succeeded: if
\* the delete succeeds and the second write fails, the old name is absent and
\* the edited data is not stored (the new name holds what it held before).
C22_RenameIsDeleteThenWriteIfDeleted ==
    [][RenameSubmitted =>
        LET s == edit_form'.submit
        IN /\ DeleteComesFirst
           /\ BothWritesSucceed
           /\ s.delete = "ok" /\ s.write # "ok" =>
                /\ ~Has(assets_info', s.original_name)
                /\ Has(assets_info', s.new_name) <=> Has(assets_info, s.new_name)
                /\ Has(assets_info, s.new_name) =>
                     Get(assets_info', s.new_name) = Get(assets_info, s.new_name)]_vars

\* A rename whose delete succeeded and whose second write failed: the holding
\* is stored under neither name.
C22_Witness ==
    /\ edit_form.submit.submitted
    /\ edit_form.submit.original_name # edit_form.submit.new_name
    /\ edit_form.submit.delete = "ok"
    /\ edit_form.submit.write = "failed"
    /\ ~Has(assets_info, edit_form.submit.original_name)
    /\ ~Has(assets_info, edit_form.submit.new_name)

\* A rename both of whose writes succeeded, next to another holding.
C22_WitnessRenamed ==
    /\ edit_form.submit.submitted
    /\ edit_form.submit.original_name # edit_form.submit.new_name
    /\ edit_form.submit.delete = "ok"
    /\ edit_form.submit.write = "ok"
    /\ Has(assets_info, edit_form.submit.new_name)
    /\ Get(assets_info, edit_form.submit.new_name) = edit_form.submit.data

\* A rename both of whose writes failed: the holding is still stored under
\* the old name.
C22_WitnessBothFailed ==
    /\ edit_form.submit.submitted
    /\ edit_form.submit.original_name # edit_form.submit.new_name
    /\ edit_form.submit.delete = "failed"
    /\ edit_form.submit.write # "ok"
    /\ Has(assets_info, edit_form.submit.original_name)

\* A rename whose delete failed and whose second write succeeded: the holding
\* is stored under both names.
C22_WitnessBothNames ==
    /\ edit_form.submit.submitted
    /\ edit_form.submit.original_name # edit_form.submit.new_name
    /\ edit_form.submit.delete = "failed"
    /\ edit_form.submit.write = "ok"
    /\ Has(assets_info, edit_form.submit.original_name)
    /\ Has(assets_info, edit_form.submit.new_name)

(* C23: renaming a subcategory in the working copy *)

\* The step renames subcategory j of major i of the working copy to new_minor_name.
RenamesMinor(i, j, new_minor_name) ==
    LET subcats == temp_cats[i].v.subcategories
    IN /\ j \in 1..Len(subcats)
       /\ new_minor_name # subcats[j].k
       /\ edits < MaxEdits
       /\ Edited(WithSubs(i, UpdateMinor(subcats, subcats[j].k, new_minor_name,
                                         subcats[j].v)))

\* The subcategories of major i after the step.
SubcatsAfter(i) == TheValue(temp_categories')[i].v.subcategories

\* C23: after a subcategory is renamed inside its major, the old name is
\* absent, the new name carries the subcategory's ratio, and the major has as
\* many subcategories as before.
C23_RenameReplacesName ==
    [][InEditMode =>
        \A i \in 1..Len(temp_cats), new_minor_name \in MinorNameInputs :
          \A j \in 1..Len(temp_cats[i].v.subcategories) :
            RenamesMinor(i, j, new_minor_name) =>
                LET subcats == temp_cats[i].v.subcategories
                IN /\ ~Has(SubcatsAfter(i), subcats[j].k)
                   /\ Has(SubcatsAfter(i), new_minor_name)
                   /\ Get(SubcatsAfter(i), new_minor_name) = subcats[j].v
                   /\ Len(SubcatsAfter(i)) = Len(subcats)]_vars

\* What the rename does do: the new name carries the subcategory's ratio, and
\* the old name is stored again with the ratio input's value.
C23_RenameKeepsOldName ==
    [][InEditMode =>
        \A i \in 1..Len(temp_cats), new_minor_name \in MinorNameInputs :
          \A j \in 1..Len(temp_cats[i].v.subcategories) :
            RenamesMinor(i, j, new_minor_name) =>
                LET subcats == temp_cats[i].v.subcategories
                IN /\ Has(SubcatsAfter(i), new_minor_name)
                   /\ Get(SubcatsAfter(i), new_minor_name) = subcats[j].v
                   /\ Has(SubcatsAfter(i), subcats[j].k)
                   /\ Get(SubcatsAfter(i), subcats[j].k) = subcats[j].v
                   /\ Len(SubcatsAfter(i)) =
                        IF Has(subcats, new_minor_name) THEN Len(subcats)
                        ELSE Len(subcats) + 1]_vars

=============================================================================
